---- MODULE Spec2Model ----
(***************************************************************************)
(* A model of the execution core: the dispatcher loop, the code injectors  *)
(* of the simple event driven model, the trampoline, and the kernel        *)
(* service routines send_event / event_handler_return / unknown            *)
(* identifier, running on one shared user stack.                           *)
(*                                                                         *)
(* Task control blocks are numbered: 0 is the idle task, 1..NumTasks are   *)
(* the slots of the event table (event e is handled by TCB e + 1).         *)
(* Addresses of the shared stack are 0..StackTop; the stack grows down.    *)
(***************************************************************************)
EXTENDS Integers, Sequences, FiniteSets, TLC

\* ------------------------------------------------------------------ bounds

\* Size of the event table: the template parameter NumTasks of the
\* TableBasedEventController the kernel instantiates.
NumTasks == 3
\* Highest address of the shared stack (exclusive).
StackTop == 5
\* Longest ready queue the scheduler is driven to.
MaxQueue == 2
\* Most cells of locals a user task leaves on the stack when it traps.
MaxLocals == 1
\* Task control blocks the task controller of the thread based kernel owns.
MaxThreads == 1
\* Cells of kernel memory the allocator hands out.
HeapSize == 1
\* Largest value of an initializer argument (a stack size, an entry point,
\* an identifier, a priority level).
MaxArg == 2

\* The arguments of one system call, at most.
MaxSyscallArgs == 3

\* The steps the body of a handler takes before it returns, at most.
MaxBody == 2

\* The handler functions a kernel registers are numbered 1..MaxHandler.
MaxHandler == 2

\* ------------------------------------------------------------------ names

Idle == 0
Handlers == 1..NumTasks
Tasks == {Idle} \cup Handlers
\* What &tasks[event] denotes for an event outside the table: no TCB at all.
Wild == NumTasks + 1
\* The value a read past the end of the argument list yields.
Garbage == 0 - 2
\* The trampoline argument of a context that was not built by the builder.
NoOldSp == 0 - 1

VARIABLES
    prev,       \* Dispatcher::prev
    next,       \* Dispatcher::next
    pc,         \* position of the dispatcher loop
    ident,      \* the service identifier switchTask returned
    sharedSP,   \* the shared task stack pointer
    mem,        \* the shared stack: address -> saved execution context
    cpu,        \* the context executing in user mode
    running,    \* the tasks the context switcher has made the running task
    queue,      \* the scheduler's ready queue
    injectors,  \* the dispatcher's Injector... pack, in declaration order
    klog,       \* the calls made since the last kernel entry
    spAtSend,   \* history: the shared stack pointer at the kernel entry of the
                \* last send_event issued outside every handler
    \* the thread based kernel (SimpleThreadBased)
    initializers, \* the Initializers... pack of the create-thread routine
    pool,       \* the task controller: the free task control blocks
    tcbs,       \* the task control blocks: task -> its fields
    heap,       \* the cells of kernel memory that are allocated
    ready,      \* the thread scheduler's ready queue
    thread,     \* the thread that is running
    frame,      \* the saved context of the thread that entered the kernel
    tlog,       \* the calls made by the last create-thread call
    tpc,        \* "run", or how the kernel stopped
    form,       \* history: the entry point the last create-thread call took
    given,      \* history: the arguments the last create-thread call was given
    \* one activation of EventHandlerTrampoline
    tramp,      \* where it stands, its two arguments, the handlers it has
                \* called and the system call it has issued
    \* the event controller (TableBasedEventController)
    tasks,      \* TableBasedEventController::tasks: event -> its TCB
    registered  \* history: event -> the handler last registered for it

\* The state of the event driven kernel and of the thread based kernel.
evars == <<prev, next, pc, ident, sharedSP, mem, cpu, running, queue, injectors,
           klog, spAtSend>>

tvars == <<initializers, pool, tcbs, heap, ready, thread, frame, tlog, tpc, form,
          given>>

rvars == <<tramp>>

cvars == <<tasks, registered>>

vars == <<evars, tvars, rvars, cvars>>

\* ------------------------------------------------------------------ data

EmptyFrame == [code |-> 0 - 1, oldsp |-> NoOldSp, started |-> FALSE, sys |-> "none",
               args |-> <<>>, cur |-> 0, ret |-> 0]

NoCpu == [code |-> 0 - 1, oldsp |-> NoOldSp, started |-> FALSE, usp |-> 0]

Entry(op, a, b) == [op |-> op, a |-> a, b |-> b]

\* Priority of a task control block (larger = higher).
Priority(t) == IF t = Idle THEN 0 ELSE IF t = 1 THEN 1 ELSE 2

\* operator> of two prioritizable tasks
HigherPriority(a, b) == Priority(a) > Priority(b)

\* Cells strictly below the stack pointer hold nothing that is read again.
Trim(m, sp) == [a \in DOMAIN m |-> IF a < sp THEN EmptyFrame ELSE m[a]]

\* ------------------------------------------------------------- scheduler

\* The position of the first task of highest priority in a non-empty queue.
Best(q) == CHOOSE i \in 1..Len(q) :
              /\ \A j \in 1..Len(q) : Priority(q[j]) <= Priority(q[i])
              /\ \A j \in 1..(i - 1) : Priority(q[j]) < Priority(q[i])

Remove(q, i) == [j \in 1..(Len(q) - 1) |-> IF j < i THEN q[j] ELSE q[j + 1]]

\* Scheduler.on_task_created(current, new): a higher priority task preempts,
\* any other one is queued.  The result is <<next task, ready queue>>.
\* The priority read through a handle that is no TCB is whatever lies there:
\* wildWins is the outcome of that comparison.
OnTaskCreated(q, current, new, wildWins) ==
    IF (IF new = Wild THEN wildWins ELSE HigherPriority(new, current))
    THEN <<new, Append(q, current)>>
    ELSE <<current, Append(q, new)>>

\* Scheduler.on_task_finished(current): the best ready task, or idle.
OnTaskFinished(q, current) ==
    IF q = <<>> THEN <<Idle, q>> ELSE <<q[Best(q)], Remove(q, Best(q))>>

\* ------------------------------------------------------ TCB components

\* SharedStackSupport::getStackPointer / setStackPointer: every TCB reads
\* and writes the one process-wide cell.
GetStackPointer(k, task) == k.sp

SetStackPointer(k, task, newStackPointer) ==
    [k EXCEPT !.sp = newStackPointer,
              !.log = Append(@, Entry("setsp", newStackPointer, task))]

\* Variant: the value under the cursor is returned, the cursor stays.
GetSyscallArgumentKeepsCursor(k, task) ==
    LET at  == k.sp
        ctx == k.mem[at]
        val == IF ctx.cur < Len(ctx.args) THEN ctx.args[ctx.cur + 1] ELSE Garbage
    IN  <<val, [k EXCEPT !.log = Append(@, Entry("getarg", val, ctx.cur + 1))]>>

\* SystemCallSupport::getSyscallArgument: va_arg on the argument list of the
\* execution context at the task's stack pointer.  The result is
\* <<value, kernel state>>; the read moves the cursor.
GetSyscallArgument(k, task) ==
    LET at  == GetStackPointer(k, task)
        ctx == k.mem[at]
        val == IF ctx.cur < Len(ctx.args) THEN ctx.args[ctx.cur + 1] ELSE Garbage
    IN  <<val, [k EXCEPT !.mem[at].cur = @ + 1,
                         !.log = Append(@, Entry("getarg", val, ctx.cur + 1))]>>

\* SystemCallSupport::setSyscallKernelReturnValue
SetSyscallKernelReturnValue(k, task, retVal) ==
    [k EXCEPT !.mem[GetStackPointer(k, task)].ret = retVal]

\* ------------------------------------------------------ event controller

\* TableBasedEventController::getRegisteredEvent: &tasks[event], unchecked.
GetRegisteredEvent(event) ==
    IF event \in 0..(NumTasks - 1) THEN event + 1 ELSE Wild

\* No handler: a null pointer to function.
NoHandler == 0

\* The event numbers of the table.
Events == 0..(NumTasks - 1)

\* EventHandlerSupport::getHandler / setHandler on a task control block.
GetHandler(block) == block.handler

SetHandler(block, newHandler) == [block EXCEPT !.handler = newHandler]

\* Variant: the handler is stored in the TCB of every event.
RegisterEventInEveryTask(table, event, handler) ==
    [e \in DOMAIN table |-> SetHandler(table[e], handler)]

\* TableBasedEventController::registerEvent:
\* this->tasks[event].setHandler(handler), for an event of the table.
RegisterEvent(table, event, handler) ==
    [table EXCEPT ![event] = SetHandler(@, handler)]

\* ------------------------------------------------------ context builder

\* The architecture's context builder on the shared stack: it writes a fresh
\* frame for next under the current top, whose trampoline argument old_sp
\* is the stack pointer it found, and moves the stack pointer to the frame.
ContextBuilder(k, p, n) ==
    LET old == k.sp
        new == old - 1
    IN  [k EXCEPT !.sp = new,
                  !.mem[new] = [EmptyFrame EXCEPT !.code = n, !.oldsp = old],
                  !.log = Append(@, Entry("build", p, n))]

\* ------------------------------------------------------------- injectors

\* Variant: the comparison is turned around.
PreemptiveInjectorInverted(k, p, n) ==
    IF HigherPriority(p, n) THEN ContextBuilder(k, p, n) ELSE k

\* Variant: the guard admits a handler of equal priority.
PreemptiveInjectorAdmitsEqual(k, p, n) ==
    IF Priority(n) >= Priority(p) THEN ContextBuilder(k, p, n) ELSE k

PreemptiveEventHandlerTrampolineContextInjector(k, p, n) ==
    IF HigherPriority(n, p) THEN ContextBuilder(k, p, n) ELSE k

\* Variant: the guard is dropped, the context is built on every iteration.
CooperativeInjectorAlwaysBuilds(k, p, n) == ContextBuilder(k, p, n)

CooperativeEventHandlerTrampolineContextInjector(k, p, n) ==
    IF n # p THEN ContextBuilder(k, p, n) ELSE k

\* An injector that only observes (tracing, performance counters).
TraceInjector(k, p, n) == k

\* Variant: the injectors hand the builder the two tasks in the wrong order.
InjectorSwapsTasks(name, k, p, n) ==
    LET called == [k EXCEPT !.log = Append(@, Entry(name, p, n))]
    IN  CASE name = "Preemptive" ->
                PreemptiveEventHandlerTrampolineContextInjector(called, n, p)
          [] name = "Cooperative" ->
                CooperativeEventHandlerTrampolineContextInjector(called, n, p)
          [] OTHER -> TraceInjector(called, p, n)

Injector(name, k, p, n) ==
    LET called == [k EXCEPT !.log = Append(@, Entry(name, p, n))]
    IN  CASE name = "Preemptive" ->
                PreemptiveEventHandlerTrampolineContextInjector(called, p, n)
          [] name = "Cooperative" ->
                CooperativeEventHandlerTrampolineContextInjector(called, p, n)
          [] OTHER -> TraceInjector(called, p, n)

\* Variant: the pack is expanded right to left.
RECURSIVE RunInjectorsRightToLeft(_, _, _, _)
RunInjectorsRightToLeft(list, k, p, n) ==
    IF list = <<>> THEN k
    ELSE Injector(Head(list), RunInjectorsRightToLeft(Tail(list), k, p, n), p, n)

\* The fold ((Injector{}(prev, next)), ...): left to right over the pack.
RECURSIVE RunInjectors(_, _, _, _)
RunInjectors(list, k, p, n) ==
    IF list = <<>> THEN k
    ELSE RunInjectors(Tail(list), Injector(Head(list), k, p, n), p, n)

\* ------------------------------------------------------ service routines

\* Variant: the routine reports success through the caller's return value.
SyscallSendEventSetsReturn(k, task, wildWins) ==
    LET got   == GetSyscallArgument(k, task)
        event == got[1]
        tcb   == GetRegisteredEvent(event)
        sched == OnTaskCreated(got[2].queue, task, tcb, wildWins)
        k2    == SetSyscallKernelReturnValue(got[2], task, 1)
    IN  [next |-> sched[1],
         k    |-> [k2 EXCEPT !.queue = sched[2],
                             !.log = Append(@, Entry("created", task, tcb))],
         halt |-> FALSE]

\* A routine yields [next, k, halt]: the task it returns, the kernel state
\* it leaves, and whether it ended in pfatal instead of returning.
SyscallSendEvent(k, task, wildWins) ==
    LET got   == GetSyscallArgument(k, task)
        event == got[1]
        tcb   == GetRegisteredEvent(event)
        sched == OnTaskCreated(got[2].queue, task, tcb, wildWins)
    IN  [next |-> sched[1],
         k    |-> [got[2] EXCEPT !.queue = sched[2],
                                 !.log = Append(@, Entry("created", task, tcb))],
         halt |-> FALSE]

\* Variant: the old stack pointer is fetched but not restored.
SyscallEventHandlerReturnNoRestore(k, task) ==
    LET got   == GetSyscallArgument(k, task)
        sched == OnTaskFinished(got[2].queue, task)
    IN  [next |-> sched[1],
         k    |-> [got[2] EXCEPT !.queue = sched[2],
                                 !.log = Append(@, Entry("finished", task, sched[1]))],
         halt |-> FALSE]

SyscallEventHandlerReturn(k, task) ==
    LET got   == GetSyscallArgument(k, task)
        k2    == SetStackPointer(got[2], task, got[1])
        sched == OnTaskFinished(k2.queue, task)
    IN  [next |-> sched[1],
         k    |-> [k2 EXCEPT !.queue = sched[2],
                             !.log = Append(@, Entry("finished", task, sched[1]))],
         halt |-> FALSE]

\* Variant: the error is reported and the task is returned.
UnknownServiceIdentifierReturns(k, task) ==
    [next |-> task,
     k    |-> [k EXCEPT !.log = Append(@, Entry("perr", task, 0))],
     halt |-> FALSE]

\* pfatal("Unknown system call identifier."): the message is the fixed text,
\* it has no argument (0), and pfatal does not return.
UnknownServiceIdentifier(k, task) ==
    [next |-> task,
     k    |-> [k EXCEPT !.log = Append(@, Entry("pfatal", task, 0))],
     halt |-> TRUE]

\* The identifiers the kernel has a routine for, and identifiers a trap can
\* carry that it has none for.
RoutineTable == {"send_event", "event_handler_return"}

UnknownIdentifiers == {"0xFFFF", "0x0003"}

\* The kernel's service routine mapper.
ServiceRoutineMapper(identifier, k, task, wildWins) ==
    CASE identifier = "send_event" -> SyscallSendEvent(k, task, wildWins)
      [] identifier = "event_handler_return" -> SyscallEventHandlerReturn(k, task)
      [] OTHER -> UnknownServiceIdentifier(k, task)

\* ------------------------------------------------------------ trampoline

\* EventHandlerTrampoline(handler, oldStack): once handler() has returned it
\* issues sysEventHandlerReturn(oldStack).  The result is the system call.
EventHandlerTrampoline(c) ==
    [sys |-> "event_handler_return", args |-> <<c.oldsp>>]

\* No system call.
NoCall == [sys |-> "none", args |-> <<>>]

\* No activation of the trampoline is followed.
NoTrampoline ==
    [at |-> "none", handler |-> 0, oldStack |-> 0, calls |-> <<>>, body |-> 0,
     issued |-> NoCall]

\* Variant: the handler is not called.
TrampolineSkipsHandler ==
    /\ tramp.at = "entry"
    /\ tramp' = [tramp EXCEPT !.at = "after"]
    /\ UNCHANGED <<evars, tvars, cvars>>

\* EventHandlerTrampoline, first statement: handler().
TrampolineCallsHandler ==
    /\ tramp.at = "entry"
    /\ tramp' = [tramp EXCEPT !.at = "handler",
                              !.calls = Append(@, tramp.handler)]
    /\ UNCHANGED <<evars, tvars, cvars>>

\* The body of the handler takes a step; the arguments of the trampoline
\* are not its to change.
HandlerRuns ==
    /\ tramp.at = "handler"
    /\ tramp.body < MaxBody
    /\ tramp' = [tramp EXCEPT !.body = @ + 1]
    /\ UNCHANGED <<evars, tvars, cvars>>

\* The handler returns into the trampoline.
HandlerReturns ==
    /\ tramp.at = "handler"
    /\ tramp' = [tramp EXCEPT !.at = "after"]
    /\ UNCHANGED <<evars, tvars, cvars>>

\* EventHandlerTrampoline, second statement: sysEventHandlerReturn(oldStack).
TrampolineReturns ==
    /\ tramp.at = "after"
    /\ tramp' = [tramp EXCEPT
                    !.at = "kernel",
                    !.issued = EventHandlerTrampoline(
                                   [code |-> tramp.handler,
                                    oldsp |-> tramp.oldStack])]
    /\ UNCHANGED <<evars, tvars, cvars>>

\* sysSendEvent(event), issued by the code that is running.
SysSendEvent(event) == [sys |-> "send_event", args |-> <<event>>]

\* ------------------------------------------------------------ dispatcher

Kernel == [sp |-> sharedSP, mem |-> mem, queue |-> queue, log |-> klog]

\* Kernel entry of the context switcher: the running context is saved on
\* the stack it runs on, under `locals` cells of its own, the shared stack
\* pointer is moved to it, and switchTask returns the identifier.
Trap(call, locals) ==
    LET at == cpu.usp - locals - 1
    IN  /\ pc = "user"
        /\ at >= 1
        /\ mem' = [mem EXCEPT ![at] =
                      [code |-> cpu.code, oldsp |-> cpu.oldsp,
                       started |-> TRUE, sys |-> call.sys,
                       args |-> call.args, cur |-> 0, ret |-> 0]]
        /\ sharedSP' = at
        /\ cpu' = NoCpu
        /\ running' = {}
        /\ ident' = call.sys
        /\ pc' = "kernel"
        /\ spAtSend' = IF cpu.oldsp = NoOldSp /\ call.sys = "send_event"
                       THEN at ELSE spAtSend
        /\ UNCHANGED <<prev, next, queue, injectors, klog>>
        /\ UNCHANGED <<tvars, rvars, cvars>>

\* Dispatcher::dispatch, top of the loop: the injectors.
Inject ==
    /\ pc = "top"
    /\ LET k == RunInjectors(injectors, Kernel, prev, next)
       IN  /\ sharedSP' = k.sp
           /\ mem' = k.mem
           /\ klog' = k.log
    /\ pc' = "switch"
    /\ UNCHANGED <<prev, next, ident, cpu, running, queue, injectors, spAtSend>>
    /\ UNCHANGED <<tvars, rvars, cvars>>

\* Switcher::switchTask(from, to), the kernel exit: the context at the stack
\* pointer of `to` is loaded and `to` is the running task.  A stack pointer
\* that addresses no saved context resumes nothing that is defined.
SwitchTaskTo(from, to) ==
    LET at == GetStackPointer(Kernel, to)
    IN  /\ klog' = Append(klog, Entry("switch", from, to))
        /\ UNCHANGED <<tvars, rvars, cvars>>
        /\ IF mem[at] = EmptyFrame
           THEN /\ pc' = "ub"
                /\ UNCHANGED <<mem, cpu, running>>
           ELSE /\ pc' = "user"
                /\ cpu' = [code |-> mem[at].code, oldsp |-> mem[at].oldsp,
                           started |-> mem[at].started, usp |-> at + 1]
                /\ mem' = Trim(mem, at + 1)
                /\ running' = {to}

\* Variant: the two handles are passed in the wrong order.
SwitchTaskSwapped ==
    /\ pc = "switch"
    /\ SwitchTaskTo(next, prev)
    /\ UNCHANGED <<prev, next, ident, sharedSP, queue, injectors, spAtSend>>

\* Dispatcher::dispatch: Switcher::switchTask(this->prev, this->next).
SwitchTask ==
    /\ pc = "switch"
    /\ SwitchTaskTo(prev, next)
    /\ UNCHANGED <<prev, next, ident, sharedSP, queue, injectors, spAtSend>>

\* The running code sends an event.
UserSendEvent ==
    \E event \in 0..NumTasks, locals \in 0..MaxLocals :
        /\ Len(queue) < MaxQueue
        /\ Trap(SysSendEvent(event), locals)

\* The running handler returns into its trampoline, which issues the return
\* system call from under its own frame.
UserHandlerDone ==
    \E locals \in 0..MaxLocals :
        /\ cpu.code # Idle
        /\ cpu.oldsp # NoOldSp
        /\ Trap(EventHandlerTrampoline(cpu), locals)

\* The running code traps with an identifier the kernel has no routine for.
UserUnknownTrap ==
    \E identifier \in UnknownIdentifiers :
        Trap([sys |-> identifier, args |-> <<>>], 0)

\* The kernel entry on behalf of `task`: prev = task, then
\* next = ServiceRoutineMapper{}(identifier)(prev).  A handle that is no TCB
\* in the scheduler's hands leaves nothing about the kernel defined.
DispatchOn(task) ==
    \E wildWins \in BOOLEAN :
        LET r == ServiceRoutineMapper(ident, [Kernel EXCEPT !.log = <<>>],
                                      task, wildWins)
        IN  /\ prev' = task
            /\ UNCHANGED <<tvars, rvars, cvars>>
            /\ next' = IF r.halt THEN next ELSE r.next
            /\ sharedSP' = r.k.sp
            /\ mem' = r.k.mem
            /\ queue' = r.k.queue
            /\ klog' = r.k.log
            /\ pc' = IF r.halt THEN "halt"
                     ELSE IF \E i \in 1..Len(r.k.queue) : r.k.queue[i] = Wild
                          THEN "ub"
                          ELSE IF r.next = Wild THEN "ub" ELSE "top"

\* Variant: the assignment prev = next is missing, the routine runs on the
\* stale prev.
DispatchOnStalePrev ==
    /\ pc = "kernel"
    /\ DispatchOn(prev)
    /\ UNCHANGED <<ident, cpu, running, injectors, spAtSend>>

\* Variant: dispatch returns to its caller once switchTask has returned.
DispatchReturns ==
    /\ pc = "kernel"
    /\ pc' = "returned"
    /\ UNCHANGED <<prev, next, ident, sharedSP, mem, cpu, running, queue,
                   injectors, klog, spAtSend>>
    /\ UNCHANGED <<tvars, rvars, cvars>>

\* Dispatcher::dispatch, after switchTask has returned: prev = next, then
\* the routine on prev.
Dispatch ==
    /\ pc = "kernel"
    /\ DispatchOn(next)
    /\ UNCHANGED <<ident, cpu, running, injectors, spAtSend>>

\* ============================================== the thread based kernel

\* nullptr, as a pointer into memory and as a task handle.
Null == 0
NullTask == 0 - 1

\* The thread the kernel starts with, and the pooled task control blocks.
Boot == 0
Threads == 1..MaxThreads

\* The statically allocated stack of the first thread.
BootSp == HeapSize + 2

\* A stack the kernel image holds for a thread created later: its start.
StaticStack == BootSp + 1

\* std::pair<UInt8*, size_t> as one argument word: the start of a stack and
\* its size.
PairRadix == MaxArg + 1

Pair(first, second) == first * PairRadix + second

First(p) == p \div PairRadix

Second(p) == p % PairRadix

\* A task control block in zero-initialised static storage.
NoTcb == [sp |-> Null, stack |-> Null, uid |-> 0, prio |-> 0, ctx |-> 0]

\* The saved context of a thread that has not entered the kernel.
NoFrame == [args |-> <<>>, cur |-> 0, ret |-> 0]

\* new UInt8[size] of a kernel whose allocator reports exhaustion by
\* nullptr: the lowest run of `size` free cells, or Null.
Fits(h, base, size) ==
    \A c \in base..(base + size - 1) : c \in 1..HeapSize /\ c \notin h

NewArray(h, size) ==
    IF \E b \in 1..HeapSize : Fits(h, b, size)
    THEN CHOOSE b \in 1..HeapSize :
             Fits(h, b, size) /\ \A c \in 1..(b - 1) : ~Fits(h, c, size)
    ELSE Null

\* TaskController::allocate: a free task control block, or nullptr.  The
\* result is <<task, kernel state>>.
Allocate(k) ==
    IF k.pool = {}
    THEN <<NullTask, [k EXCEPT !.log = Append(@, Entry("allocate", NullTask, 0))]>>
    ELSE LET t == CHOOSE x \in k.pool : \A y \in k.pool : x <= y
         IN  <<t, [k EXCEPT !.pool = @ \ {t},
                            !.log = Append(@, Entry("allocate", t, 0))]>>

\* TaskController::release
Release(k, task) ==
    [k EXCEPT !.pool = @ \cup {task},
              !.log = Append(@, Entry("release", task, 0))]

\* Thread scheduler, on_task_created(current, new): a thread of higher
\* priority preempts, any other one is queued.  <<next task, ready queue>>.
ThreadOnTaskCreated(k, task, newTask) ==
    IF k.tcb[newTask].prio > k.tcb[task].prio
    THEN <<newTask, Append(k.queue, task)>>
    ELSE <<task, Append(k.queue, newTask)>>

\* DedicatedNonRecyclableStackSupport: the stack pointer is a field of the
\* task control block.
GetDedicatedStackPointer(k, task) == k.tcb[task].sp

\* Variant: the stack pointer is one cell behind every task control block.
SetStackPointerOfEveryTask(k, task, newStackPointer) ==
    [k EXCEPT !.tcb = [t \in DOMAIN @ |-> [@[t] EXCEPT !.sp = newStackPointer]]]

SetDedicatedStackPointer(k, task, newStackPointer) ==
    [k EXCEPT !.tcb[task].sp = newStackPointer]

\* DedicatedRecyclableStackSupport::setPrivateStack
SetPrivateStack(k, task, newStack) ==
    [k EXCEPT !.tcb[task].stack = newStack]

\* ---------------------------------------------------------- initializers

\* An initializer yields [ok, k, halt]: what it returns, the kernel state it
\* leaves, and whether it ended in a failed precondition instead.
AllocateDedicatedStack(k, task, stackSize) ==
    LET stack == NewArray(k.heap, stackSize)
    IN  IF stack = Null
        THEN [ok |-> FALSE, k |-> k, halt |-> FALSE]
        ELSE [ok |-> TRUE,
              k |-> SetDedicatedStackPointer(
                        [k EXCEPT !.heap = @ \cup (stack..(stack + stackSize - 1))],
                        task, stack + stackSize),
              halt |-> FALSE]

AllocateDedicatedRecyclableStack(k, task, stackSize) ==
    LET stack == NewArray(k.heap, stackSize)
    IN  IF stack = Null
        THEN [ok |-> FALSE, k |-> k, halt |-> FALSE]
        ELSE [ok |-> TRUE,
              k |-> SetDedicatedStackPointer(
                        SetPrivateStack(
                            [k EXCEPT !.heap = @ \cup (stack..(stack + stackSize - 1))],
                            task, stack),
                        task, stack + stackSize),
              halt |-> FALSE]

\* Variant: the stack pointer is left at the start of the stack.
AssignRecyclableStackAtBase(k, task, stack) ==
    [ok |-> TRUE,
     k |-> SetDedicatedStackPointer(SetPrivateStack(k, task, First(stack)),
                                    task, First(stack)),
     halt |-> FALSE]

AssignDedicatedRecyclableStackWithSize(k, task, stack) ==
    [ok |-> TRUE,
     k |-> SetDedicatedStackPointer(SetPrivateStack(k, task, First(stack)),
                                    task, First(stack) + Second(stack)),
     halt |-> FALSE]

\* TaskContextBuilder{}(task, entryPoint): resuming the task starts it at
\* the entry point.
TaskContextBuilder(k, task, entryPoint) ==
    [k EXCEPT !.tcb[task].ctx = entryPoint,
              !.log = Append(@, Entry("context", task, entryPoint))]

\* Variant: the precondition is not tested.
SetupExecutionContextUnchecked(k, task, entryPoint) ==
    [ok |-> TRUE, k |-> TaskContextBuilder(k, task, entryPoint), halt |-> FALSE]

SetupExecutionContext(k, task, entryPoint) ==
    IF GetDedicatedStackPointer(k, task) = Null
    THEN [ok |-> FALSE,
          k |-> [k EXCEPT !.log = Append(@, Entry("precondition", task, 0))],
          halt |-> TRUE]
    ELSE [ok |-> TRUE, k |-> TaskContextBuilder(k, task, entryPoint),
          halt |-> FALSE]

AssignUniqueIdentifier(k, task, identifier) ==
    [ok |-> TRUE, k |-> [k EXCEPT !.tcb[task].uid = identifier], halt |-> FALSE]

AssignPriority(k, task, priority) ==
    [ok |-> TRUE, k |-> [k EXCEPT !.tcb[task].prio = priority], halt |-> FALSE]

\* Initializers{}(task, arg) of one member of the pack; the call is
\* recorded, and so is a result of false.
Initializer(name, k, task, arg) ==
    LET k1 == [k EXCEPT !.log = Append(@, Entry(name, task, arg))]
        r  == CASE name = "AllocateDedicatedStack" ->
                       AllocateDedicatedStack(k1, task, arg)
                [] name = "AllocateDedicatedRecyclableStack" ->
                       AllocateDedicatedRecyclableStack(k1, task, arg)
                [] name = "AssignDedicatedRecyclableStackWithSize" ->
                       AssignDedicatedRecyclableStackWithSize(k1, task, arg)
                [] name = "SetupExecutionContext" ->
                       SetupExecutionContext(k1, task, arg)
                [] name = "AssignUniqueIdentifier" ->
                       AssignUniqueIdentifier(k1, task, arg)
                [] name = "AssignPriority" ->
                       AssignPriority(k1, task, arg)
    IN  IF r.ok \/ r.halt
        THEN r
        ELSE [r EXCEPT !.k.log = Append(@, Entry("false", task, 0))]

\* --------------------------------------------------------- create thread

\* Variant: the fold runs from the last initializer to the first.
RECURSIVE TaskInitializerBuilderRightToLeft(_, _, _, _)
TaskInitializerBuilderRightToLeft(inits, k, task, args) ==
    IF inits = <<>>
    THEN [ok |-> TRUE, k |-> k, halt |-> FALSE]
    ELSE LET n == Len(inits)
             r == Initializer(inits[n], k, task, args[n])
         IN  IF r.halt \/ ~r.ok
             THEN r
             ELSE TaskInitializerBuilderRightToLeft(
                      SubSeq(inits, 1, n - 1), r.k, task, SubSeq(args, 1, n - 1))

\* KPI::TaskInitializerBuilderWithArgs: (Initializers{}(task, args) && ...),
\* the pack and the arguments side by side, left to right, stopping at the
\* first initializer that returns false.
RECURSIVE TaskInitializerBuilderWithArgs(_, _, _, _)
TaskInitializerBuilderWithArgs(inits, k, task, args) ==
    IF inits = <<>>
    THEN [ok |-> TRUE, k |-> k, halt |-> FALSE]
    ELSE LET r == Initializer(Head(inits), k, task, Head(args))
         IN  IF r.halt \/ ~r.ok
             THEN r
             ELSE TaskInitializerBuilderWithArgs(Tail(inits), r.k, task, Tail(args))

\* TaskControllerProvidesBasicAllocationSupport<C>: C has allocate() and
\* release(task).  No initializer of the kernel has them.
IsTaskController(c) == c = "TaskController"

\* The routine yields [next, k, halt, illformed]: the task it returns, the
\* kernel state it leaves, whether it ended in a failed precondition, and
\* whether the template arguments violate its constraints, in which case
\* the build yields no routine at all.
IllFormed(k, task) ==
    [next |-> task, k |-> k, halt |-> FALSE, illformed |-> TRUE]

\* Variant: the failure is not reported to the caller.
AllocationFailedUnreported(k, task) ==
    [next |-> task, k |-> k, halt |-> FALSE, illformed |-> FALSE]

\* The guard on controller.allocate(): no task control block is left.
AllocationFailed(k, task) ==
    [next |-> task, k |-> SetSyscallKernelReturnValue(k, task, 0 - 1),
     halt |-> FALSE, illformed |-> FALSE]

\* Variant: the task control block is not handed back.
InitializationFailedKeepsTask(k, task, newTask) ==
    [next |-> task, k |-> SetSyscallKernelReturnValue(k, task, 0 - 1),
     halt |-> FALSE, illformed |-> FALSE]

\* The guard on the initializers: one of them returned false.
InitializationFailed(k, task, newTask) ==
    [next |-> task,
     k |-> SetSyscallKernelReturnValue(Release(k, newTask), task, 0 - 1),
     halt |-> FALSE, illformed |-> FALSE]

\* Variant: the routine reports success in the caller's return value.
TaskCreatedReportsSuccess(k, task, newTask) ==
    LET sched == ThreadOnTaskCreated(k, task, newTask)
    IN  [next |-> sched[1],
         k |-> [SetSyscallKernelReturnValue(k, task, 0) EXCEPT
                   !.queue = sched[2],
                   !.log = Append(@, Entry("created", task, newTask))],
         halt |-> FALSE, illformed |-> FALSE]

\* A new task has been created: the routine returns what the scheduler's
\* onTaskCreated(task, newTask) returns, and does nothing else.
TaskCreated(k, task, newTask) ==
    LET sched == ThreadOnTaskCreated(k, task, newTask)
    IN  [next |-> sched[1],
         k |-> [k EXCEPT !.queue = sched[2],
                         !.log = Append(@, Entry("created", task, newTask))],
         halt |-> FALSE, illformed |-> FALSE]

\* ServiceRoutineBuilder<Task, TaskScheduler, TaskController,
\* Initializers...>::operator()(task, args...), the in-kernel form.
ServiceRoutineBuilder(controller, inits, k, task, args) ==
    IF ~IsTaskController(controller) \/ Len(inits) # Len(args)
    THEN IllFormed(k, task)
    ELSE
    LET got     == Allocate(k)
        newTask == got[1]
    IN  IF newTask = NullTask
        THEN AllocationFailed(got[2], task)
        ELSE
        LET r == TaskInitializerBuilderWithArgs(inits, got[2], newTask, args)
        IN  IF r.halt
            THEN [next |-> task, k |-> r.k, halt |-> TRUE, illformed |-> FALSE]
            ELSE IF ~r.ok
            THEN InitializationFailed(r.k, task, newTask)
            ELSE TaskCreated(r.k, task, newTask)

\* Variant: the index sequence is one short, the last member of the pack
\* gets no read.
RECURSIVE CollectorOneShort(_, _, _)
CollectorOneShort(inits, k, task) ==
    IF inits = <<>>
    THEN <<<<>>, k>>
    ELSE IF Len(inits) = 1
    THEN <<<<Garbage>>, k>>
    ELSE LET got  == GetSyscallArgument(k, task)
             rest == CollectorOneShort(Tail(inits), got[2], task)
         IN  <<(<<got[1]>> \o rest[1]), rest[2]>>

\* The collector of ServiceRoutineBuilderWithTaskArgs: one
\* getSyscallArgument per member of the pack, first member first.  The
\* result is <<arguments, kernel state>>.
RECURSIVE Collector(_, _, _)
Collector(inits, k, task) ==
    IF inits = <<>>
    THEN <<<<>>, k>>
    ELSE LET got  == GetSyscallArgument(k, task)
             rest == Collector(Tail(inits), got[2], task)
         IN  <<(<<got[1]>> \o rest[1]), rest[2]>>

\* ServiceRoutineBuilderWithTaskArgs<Task, TaskScheduler, TaskController,
\* Initializers...>::operator()(task), the syscall form.  It delegates to
\* ServiceRoutineBuilder<Task, TaskScheduler, Initializers...>::execute: the
\* controller is not handed on, so the first member of the pack stands where
\* the delegate expects its task controller and the rest of the pack is
\* the delegate's pack.
ServiceRoutineBuilderWithTaskArgs(controller, inits, k, task) ==
    LET collected == Collector(inits, k, task)
        arguments == collected[1]
        delegateController == IF inits = <<>> THEN "none" ELSE Head(inits)
        delegatePack       == IF inits = <<>> THEN <<>> ELSE Tail(inits)
    IN  ServiceRoutineBuilder(delegateController, delegatePack, collected[2],
                              task, arguments)

\* ----------------------------------------------- the thread based kernel

\* The values of Initializer::Arg a caller passes: the size of a recyclable
\* stack, from 0 on; a stack of the kernel image with its size, from 0 on;
\* or any other word.
ArgDomain(name) ==
    CASE name = "AllocateDedicatedRecyclableStack" ->
             0..MaxArg
      [] name = "AssignDedicatedRecyclableStackWithSize" ->
             {Pair(StaticStack, size) : size \in 0..MaxArg}
      [] OTHER -> 1..MaxArg

\* One argument for each member of the pack.
RECURSIVE ArgSeqs(_)
ArgSeqs(inits) ==
    IF inits = <<>>
    THEN {<<>>}
    ELSE {<<arg>> \o rest : arg \in ArgDomain(Head(inits)),
                            rest \in ArgSeqs(Tail(inits))}

\* The kernel state a create-thread call of the running thread starts
\* from; `saved` is the context the thread left at its stack pointer.
ThreadKernel(saved) ==
    [sp |-> tcbs[thread].sp, mem |-> (tcbs[thread].sp :> saved), log |-> <<>>,
     pool |-> pool, tcb |-> tcbs, heap |-> heap, queue |-> ready]

\* The kernel after the routine: its effects are the state, the task it
\* returned is the thread that runs next.
Returned(out, entry, args) ==
    /\ form' = entry
    /\ given' = args
    /\ tlog' = out.k.log
    /\ frame' = out.k.mem[out.k.sp]
    /\ pool' = out.k.pool
    /\ tcbs' = out.k.tcb
    /\ heap' = out.k.heap
    /\ ready' = out.k.queue
    /\ tpc' = IF out.illformed THEN "illformed"
              ELSE IF out.halt THEN "panic" ELSE "run"
    /\ thread' = IF out.illformed \/ out.halt THEN thread ELSE out.next
    /\ UNCHANGED initializers
    /\ UNCHANGED <<evars, rvars, cvars>>

\* The kernel creates a thread on behalf of the running thread, with
\* arguments of its own.
KernelCreateThread ==
    \E args \in ArgSeqs(initializers), ret \in 0..1 :
        /\ tpc = "run"
        /\ Returned(ServiceRoutineBuilder(
                        "TaskController", initializers,
                        ThreadKernel([args |-> <<>>, cur |-> 0, ret |-> ret]),
                        thread, args),
                    "kernel", args)

\* The running thread issues the create-thread system call with one
\* argument per initializer.
SyscallCreateThread ==
    \E args \in ArgSeqs(initializers), ret \in 0..1 :
        /\ tpc = "run"
        /\ Returned(ServiceRoutineBuilderWithTaskArgs(
                        "TaskController", initializers,
                        ThreadKernel([args |-> args, cur |-> 0, ret |-> ret]),
                        thread),
                    "syscall", args)

\* The argument lists a thread traps with.
ArgLists == UNION {[1..n -> 1..MaxArg] : n \in 0..MaxSyscallArgs}

\* The running thread traps: its context, with the argument list and the
\* return value slot, is saved at its stack pointer.
SystemCallTrap ==
    \E args \in ArgLists, ret \in 0..1 :
        /\ tpc = "run"
        /\ frame' = [args |-> args, cur |-> 0, ret |-> ret]
        /\ tlog' = <<>>
        /\ tpc' = "kernel"
        /\ UNCHANGED <<initializers, pool, tcbs, heap, ready, thread, form, given>>
        /\ UNCHANGED <<evars, rvars, cvars>>

\* The kernel state a routine works on while it serves the system call.
SyscallKernel == [ThreadKernel(frame) EXCEPT !.log = tlog]

\* A routine calls task->getSyscallArgument<Arg>() on the thread that
\* trapped, for an argument the caller passed.
ReadSyscallArgument ==
    LET got == GetSyscallArgument(SyscallKernel, thread)
    IN  /\ tpc = "kernel"
        /\ frame.cur < Len(frame.args)
        /\ frame' = got[2].mem[got[2].sp]
        /\ tlog' = got[2].log
        /\ UNCHANGED <<initializers, pool, tcbs, heap, ready, thread, tpc, form,
                       given>>
        /\ UNCHANGED <<evars, rvars, cvars>>

\* A routine calls task->setSyscallKernelReturnValue(retVal), once in a
\* kernel entry.
WriteKernelReturnValue ==
    \E retVal \in {0 - 1, 0, 1} :
        LET k == SetSyscallKernelReturnValue(SyscallKernel, thread, retVal)
        IN  /\ tpc = "kernel"
            /\ \A i \in 1..Len(tlog) : tlog[i].op # "setret"
            /\ frame' = k.mem[k.sp]
            /\ tlog' = Append(k.log, Entry("setret", retVal, 0))
            /\ UNCHANGED <<initializers, pool, tcbs, heap, ready, thread, tpc,
                           form, given>>
            /\ UNCHANGED <<evars, rvars, cvars>>

\* The Initializers... packs of the kernels considered.
\* Kernel code calls setStackPointer on a task control block with shared
\* stack support.
SharedSetStackPointer ==
    \E task \in Tasks, newStackPointer \in 0..(StackTop - 1) :
        LET k == SetStackPointer([Kernel EXCEPT !.log = <<>>], task,
                                 newStackPointer)
        IN  /\ sharedSP' = k.sp
            /\ klog' = k.log
            /\ UNCHANGED <<prev, next, pc, ident, mem, cpu, running, queue,
                           injectors, spAtSend>>
            /\ UNCHANGED <<tvars, rvars, cvars>>

\* Kernel code calls setStackPointer on a task control block with
\* dedicated stack support.
DedicatedSetStackPointer ==
    \E task \in {Boot} \cup Threads, newStackPointer \in 0..(StackTop - 1) :
        LET k == SetDedicatedStackPointer(ThreadKernel(frame), task,
                                          newStackPointer)
        IN  /\ tcbs' = k.tcb
            /\ tlog' = <<Entry("setsp", newStackPointer, task)>>
            /\ UNCHANGED <<initializers, pool, heap, ready, thread, frame, tpc,
                           form, given>>
            /\ UNCHANGED <<evars, rvars, cvars>>

\* Kernel code registers a handler for an event of the table.
ControllerRegisterEvent ==
    \E event \in Events, handler \in 1..MaxHandler :
        /\ tasks' = RegisterEvent(tasks, event, handler)
        /\ registered' = [registered EXCEPT ![event] = handler]
        /\ klog' = <<Entry("registerEvent", event, handler)>>
        /\ UNCHANGED <<prev, next, pc, ident, sharedSP, mem, cpu, running,
                       queue, injectors, spAtSend>>
        /\ UNCHANGED <<tvars, rvars>>

\* Kernel code looks up the TCB of an event of the table and reads the
\* handler stored in it.
ControllerLookup ==
    \E event \in Events :
        LET block == GetRegisteredEvent(event)
        IN  /\ klog' = <<Entry("getRegisteredEvent", event, block),
                         Entry("getHandler", block,
                               GetHandler(tasks[block - 1]))>>
            /\ UNCHANGED <<prev, next, pc, ident, sharedSP, mem, cpu, running,
                           queue, injectors, spAtSend>>
            /\ UNCHANGED <<tvars, rvars, cvars>>

InitializerLists ==
    {<<>>,
     <<"AssignPriority">>,
     <<"AllocateDedicatedStack", "SetupExecutionContext">>,
     <<"AssignPriority", "AllocateDedicatedRecyclableStack", "SetupExecutionContext">>,
     <<"AllocateDedicatedStack", "AllocateDedicatedRecyclableStack">>,
     <<"AssignUniqueIdentifier", "AssignPriority", "AllocateDedicatedStack">>,
     <<"SetupExecutionContext", "AllocateDedicatedStack">>,
     <<"AssignDedicatedRecyclableStackWithSize", "SetupExecutionContext">>}

ThreadInit ==
    /\ initializers \in InitializerLists
    /\ pool = Threads
    /\ tcbs = [t \in {Boot} \cup Threads |->
                  IF t = Boot THEN [NoTcb EXCEPT !.sp = BootSp, !.prio = 1]
                  ELSE NoTcb]
    /\ heap = {}
    /\ ready = <<>>
    /\ thread = Boot
    /\ frame = NoFrame
    /\ tlog = <<>>
    /\ tpc = "run"
    /\ form = "none"
    /\ given = <<>>

\* The table in static storage: no handler is registered.
ControllerInit ==
    /\ tasks = [e \in Events |-> [handler |-> NoHandler]]
    /\ registered = [e \in Events |-> NoHandler]

InjectorPacks == {<<"Trace", "Preemptive">>, <<"Cooperative", "Trace">>}

EventInit ==
    /\ prev = Idle
    /\ next = Idle
    /\ pc = "top"
    /\ ident = "none"
    /\ sharedSP = StackTop - 1
    /\ mem = [a \in 0..(StackTop - 1) |->
                 IF a = StackTop - 1 THEN [EmptyFrame EXCEPT !.code = Idle]
                 ELSE EmptyFrame]
    /\ cpu = NoCpu
    /\ running = {}
    /\ queue = <<>>
    /\ injectors \in InjectorPacks
    /\ klog = <<>>
    /\ spAtSend = NoOldSp

\* The event driven kernel; it has no create-thread routine.
Init ==
    /\ EventInit
    /\ ThreadInit
    /\ initializers = <<>>
    /\ tramp = NoTrampoline
    /\ ControllerInit

Next ==
    \/ Inject
    \/ SwitchTask
    \/ UserSendEvent
    \/ UserHandlerDone
    \/ UserUnknownTrap
    \/ Dispatch

Spec == Init /\ [][Next]_vars

\* The event driven kernel under the scheduling the code has: the loop of
\* Dispatcher::dispatch is one sequential body, so each of its steps is taken
\* once it is enabled; a running task eventually traps; a handler that runs
\* again and again eventually returns into its trampoline.
Traps == UserSendEvent \/ UserHandlerDone \/ UserUnknownTrap

Fairness ==
    /\ WF_vars(Inject)
    /\ WF_vars(SwitchTask)
    /\ WF_vars(Dispatch)
    /\ WF_vars(Traps)
    /\ \A h \in Handlers : SF_vars(UserHandlerDone /\ cpu.code = h)

SpecFair == Init /\ [][Next]_vars /\ Fairness

\* The event driven kernel with the preemptive pack as one sequential
\* program that makes progress: the dispatcher takes its next step, and the
\* task it switched to enters the kernel again, here from its outermost
\* frame.  In every state either one statement of the loop or the running
\* task can take a step.
InitLoop ==
    /\ Init
    /\ injectors = <<"Trace", "Preemptive">>

OutermostTrap == sharedSP' = cpu.usp - 1

NextLoop ==
    \/ Inject
    \/ SwitchTask
    \/ Traps /\ OutermostTrap
    \/ Dispatch

Progress == WF_vars(NextLoop)

SpecLoop == InitLoop /\ [][NextLoop]_vars /\ Progress

\* The thread based kernel, next to an event driven kernel that stays as
\* constructed.
InitThread ==
    /\ ThreadInit
    /\ EventInit
    /\ injectors = <<"Trace", "Preemptive">>
    /\ tramp = NoTrampoline
    /\ ControllerInit

\* One activation of the trampoline, entered with a handler of the table
\* and a stack pointer the context builder found, next to kernels that stay
\* as constructed.
InitTrampoline ==
    /\ EventInit
    /\ injectors = <<"Trace", "Preemptive">>
    /\ ThreadInit
    /\ initializers = <<>>
    /\ tramp \in {[NoTrampoline EXCEPT !.at = "entry", !.handler = h,
                                       !.oldStack = old] :
                     h \in Handlers, old \in 1..(StackTop - 1)}
    /\ ControllerInit

\* One kernel entry of a thread that can invoke system calls.
InitSyscall ==
    /\ ThreadInit
    /\ initializers = <<>>
    /\ EventInit
    /\ injectors = <<"Trace", "Preemptive">>
    /\ tramp = NoTrampoline
    /\ ControllerInit

NextSyscall ==
    \/ SystemCallTrap
    \/ ReadSyscallArgument
    \/ WriteKernelReturnValue

SpecSyscall == InitSyscall /\ [][NextSyscall]_vars

\* Task control blocks of both stack supports and the calls of
\* setStackPointer on them, from kernels as constructed: the shared cell
\* and the fields are in static storage.
InitStackPointer ==
    /\ EventInit
    /\ injectors = <<"Trace", "Preemptive">>
    /\ ThreadInit
    /\ initializers = <<>>
    /\ tramp = NoTrampoline
    /\ ControllerInit

NextStackPointer ==
    \/ SharedSetStackPointer
    \/ DedicatedSetStackPointer

SpecStackPointer == InitStackPointer /\ [][NextStackPointer]_vars

\* The event controller and the calls of its two members, from a table as
\* constructed.
InitController ==
    /\ EventInit
    /\ injectors = <<"Trace", "Preemptive">>
    /\ ThreadInit
    /\ initializers = <<>>
    /\ ControllerInit
    /\ tramp = NoTrampoline

NextController ==
    \/ ControllerRegisterEvent
    \/ ControllerLookup

SpecController == InitController /\ [][NextController]_vars

NextTrampoline ==
    \/ TrampolineCallsHandler
    \/ HandlerRuns
    \/ HandlerReturns
    \/ TrampolineReturns

SpecTrampoline == InitTrampoline /\ [][NextTrampoline]_vars

NextThread ==
    \/ KernelCreateThread
    \/ SyscallCreateThread

SpecThread == InitThread /\ [][NextThread]_vars

\* ================================================================ claims

HasOp(log, o) == \E i \in 1..Len(log) : log[i].op = o

CountOp(log, o) == Cardinality({i \in 1..Len(log) : log[i].op = o})

IsInjectorCall(e) == e.op \in {"Trace", "Preemptive", "Cooperative"}

InjectorCalls(log) == SelectSeq(log, IsInjectorCall)

UsesPreemptive == \E i \in 1..Len(injectors) : injectors[i] = "Preemptive"

UsesCooperative == \E i \in 1..Len(injectors) : injectors[i] = "Cooperative"

\* The frame the context builder writes for n over a stack pointer of old.
FreshFrame(n, old) == [EmptyFrame EXCEPT !.code = n, !.oldsp = old]

\* C1: event_handler_return reads one argument, old_sp, makes it the shared
\* stack pointer whatever the pointer was, only then asks the scheduler, and
\* returns what on_task_finished(task) returns.
C1_StackRestore ==
    [][(pc = "kernel" /\ ident = "event_handler_return") =>
        LET old   == mem[sharedSP].args[1]
            sched == OnTaskFinished(queue, next)
        IN  /\ sharedSP' = old
            /\ next' = sched[1]
            /\ queue' = sched[2]
            /\ klog' = <<Entry("getarg", old, 1), Entry("setsp", old, next),
                         Entry("finished", next, sched[1])>>]_vars

\* A return has been served from a stack pointer two cells under old_sp.
C1_Witness ==
    /\ pc = "top"
    /\ ident = "event_handler_return"
    /\ klog[2] = Entry("setsp", sharedSP, prev)
    /\ mem[sharedSP - 2].sys = "event_handler_return"
    /\ mem[sharedSP - 2].cur = 1

\* C2: the preemptive injector calls the context builder on (prev, next)
\* exactly when next has the higher priority, and otherwise leaves the stack
\* pointer, the stack, the scheduler and the dispatcher's handles alone.
C2_PriorityGating ==
    [][(pc = "top" /\ UsesPreemptive) =>
        IF Priority(next) > Priority(prev)
        THEN /\ CountOp(klog', "build") = 1
             /\ HasOp(klog', "build")
             /\ klog'[Len(klog')] = Entry("build", prev, next)
             /\ sharedSP' = sharedSP - 1
             /\ mem' = [mem EXCEPT ![sharedSP - 1] = FreshFrame(next, sharedSP)]
        ELSE /\ CountOp(klog', "build") = 0
             /\ sharedSP' = sharedSP
             /\ mem' = mem
             /\ UNCHANGED <<prev, next, queue, cpu, running>>]_vars

\* The injector has run on two different tasks of equal priority and built
\* nothing.
C2_Witness ==
    /\ pc = "switch"
    /\ UsesPreemptive
    /\ next # prev
    /\ Priority(next) = Priority(prev)
    /\ ~HasOp(klog, "build")

\* C3: the cooperative injector calls the context builder on (prev, next)
\* exactly when next is not prev; with next = prev the stack and the stack
\* pointer are as they were.
C3_CooperativeGating ==
    [][(pc = "top" /\ UsesCooperative) =>
        IF next # prev
        THEN /\ CountOp(klog', "build") = 1
             /\ \E i \in 1..Len(klog') : klog'[i] = Entry("build", prev, next)
             /\ sharedSP' = sharedSP - 1
             /\ mem' = [mem EXCEPT ![sharedSP - 1] = FreshFrame(next, sharedSP)]
        ELSE /\ CountOp(klog', "build") = 0
             /\ sharedSP' = sharedSP
             /\ mem' = mem
             /\ UNCHANGED <<prev, next, queue, cpu, running>>]_vars

\* A handler sent an event, stayed the next task, and the injector built
\* nothing.
C3_Witness ==
    /\ pc = "switch"
    /\ UsesCooperative
    /\ next = prev
    /\ next # Idle
    /\ ident = "send_event"
    /\ ~HasOp(klog, "build")

\* C4: one iteration is: every injector of the pack once on (prev, next), in
\* declaration order; then one switchTask(prev, next); then prev = next;
\* then next = map(identifier)(prev).
C4_IterationOrder ==
    [][/\ pc = "top" =>
            /\ pc' = "switch"
            /\ InjectorCalls(klog') =
                  [i \in 1..Len(injectors) |-> Entry(injectors[i], prev, next)]
            /\ ~HasOp(klog', "switch")
            /\ UNCHANGED <<prev, next>>
       /\ pc = "switch" =>
            /\ pc' \in {"user", "ub"}
            /\ klog' = Append(klog, Entry("switch", prev, next))
            /\ UNCHANGED <<prev, next, sharedSP>>
       /\ pc = "user" =>
            /\ pc' = "kernel"
            /\ CountOp(klog, "switch") = 1
            /\ UNCHANGED <<prev, next, klog>>
       /\ pc = "kernel" =>
            /\ pc' \in {"top", "halt", "ub"}
            /\ prev' = next
            /\ pc' # "halt" =>
                 \E w \in BOOLEAN :
                     next' = ServiceRoutineMapper(ident, [Kernel EXCEPT !.log = <<>>],
                                                  prev', w).next]_vars

\* The routine returned the interrupted handler itself and both injectors
\* were still called before the switch.
C4_Witness ==
    /\ pc = "user"
    /\ ident = "send_event"
    /\ next = prev
    /\ next # Idle
    /\ Len(InjectorCalls(klog)) = 2
    /\ klog[Len(klog)] = Entry("switch", prev, next)

\* C5: when the routine returns the task it was given, the iteration ends
\* with both handles on the task that was switched to.
C5_DispatchFixedPoint ==
    [][(/\ pc = "kernel"
        /\ \A w \in BOOLEAN :
              LET r == ServiceRoutineMapper(ident, [Kernel EXCEPT !.log = <<>>], next, w)
              IN  ~r.halt /\ r.next = next)
       => (prev' = next /\ next' = next)]_vars

\* A handler that preempted another one sent an event that was queued.
C5_Witness ==
    /\ pc = "top"
    /\ ident = "send_event"
    /\ prev = next
    /\ next # Idle
    /\ Len(queue) = 2
    /\ queue[1] = Idle

\* C6: at most one task runs at a time.  From switchTask to the next kernel
\* entry exactly one TCB runs, the next of that switchTask, on one
\* execution context; from the kernel entry to the following switchTask no
\* task runs and no context executes.
C6_OneRunningTask ==
    /\ Cardinality(running) <= 1
    /\ pc = "user" => (running = {next} /\ cpu # NoCpu)
    /\ pc # "user" => (running = {} /\ cpu = NoCpu)

\* A handler runs after it preempted another task.
C6_Witness ==
    /\ pc = "user"
    /\ next \in Handlers
    /\ prev \in Handlers
    /\ next # prev
    /\ running = {next}

\* The saved context of the task that sent the event a handler context c
\* was built for: the cell c.oldsp holds a context that was interrupted in
\* send_event of c's event.
SenderContextAt(c) ==
    /\ mem[c.oldsp] # EmptyFrame
    /\ mem[c.oldsp].started
    /\ mem[c.oldsp].sys = "send_event"
    /\ GetRegisteredEvent(mem[c.oldsp].args[1]) = c.code

\* C7: nested preemption under the preemptive injector.  A send_event to a
\* handler of strictly higher priority makes that handler next, its context
\* is built over the sender's saved context and it starts fresh; a handler
\* return resumes, without any build, the started context saved at the old
\* stack pointer, which is the context of the sender of the returning
\* handler's event; and when the code outside every handler runs again
\* after a return, the stack is empty and the shared stack pointer is the
\* one of the kernel entry of its send_event.
C7_NestedPreemption ==
    (UsesPreemptive /\ pc = "user") =>
        /\ (/\ ident = "send_event"
            /\ klog[2].b # Wild
            /\ HigherPriority(klog[2].b, klog[2].a))
           => /\ prev = klog[2].a
              /\ next = klog[2].b
              /\ HasOp(klog, "build")
              /\ cpu = [code |-> next, oldsp |-> sharedSP + 1,
                        started |-> FALSE, usp |-> sharedSP + 1]
        /\ ident = "event_handler_return"
           => /\ ~HasOp(klog, "build")
              /\ sharedSP = klog[1].a
              /\ cpu.started
              /\ cpu.usp = sharedSP + 1
        /\ cpu.oldsp # NoOldSp
           => /\ SenderContextAt(cpu)
              /\ cpu.oldsp >= cpu.usp
              /\ Priority(cpu.code) > Priority(mem[cpu.oldsp].code)
        /\ \A a \in DOMAIN mem :
              (mem[a] # EmptyFrame /\ mem[a].oldsp # NoOldSp)
              => (SenderContextAt(mem[a]) /\ mem[a].oldsp > a)
        /\ (cpu.oldsp = NoOldSp /\ ident = "event_handler_return")
           => /\ sharedSP = spAtSend
              /\ \A a \in DOMAIN mem : mem[a] = EmptyFrame

\* The handler of priority 1 runs again, started, after a handler of
\* priority 2 that preempted it has returned, with its own sender saved.
C7_Witness ==
    /\ UsesPreemptive
    /\ pc = "user"
    /\ ident = "event_handler_return"
    /\ Priority(prev) = 2
    /\ next = 1
    /\ cpu.code = 1
    /\ cpu.started
    /\ mem[cpu.oldsp].code = Idle

\* The whole nest has unwound: idle runs again on an empty stack.
C7_WitnessUnwound ==
    /\ UsesPreemptive
    /\ pc = "user"
    /\ ident = "event_handler_return"
    /\ next = Idle
    /\ cpu.code = Idle
    /\ cpu.oldsp = NoOldSp
    /\ sharedSP = spAtSend

\* C8: on the shared stack one handler executes at a time, every context on
\* the stack being one that was interrupted; and a context starts fresh only
\* when the context builder, in the same kernel entry, was called on
\* (prev, next), wrote the frame of next and moved the stack pointer to it.
C8_SharedStackDiscipline ==
    pc = "user" =>
        /\ Cardinality(running) = 1
        /\ \A a \in DOMAIN mem : mem[a] # EmptyFrame => mem[a].started
        /\ (~cpu.started /\ ident # "none")
           => /\ \E i \in 1..Len(klog) : klog[i] = Entry("build", prev, next)
              /\ next # prev
              /\ cpu.code = next
              /\ cpu.oldsp = sharedSP + 1
              /\ cpu.usp = sharedSP + 1

\* A handler of priority 2 starts fresh over the handler it preempted.
C8_Witness ==
    /\ pc = "user"
    /\ ~cpu.started
    /\ cpu.code = 2
    /\ prev = 1
    /\ mem[cpu.oldsp].code = 1

\* C9: send_event reads one argument, the event; hands the scheduler the
\* caller and the TCB the mapper gives for the event; returns what
\* on_task_created returns, which is the caller or that TCB; and leaves the
\* shared stack pointer and the caller's return value as they were.
C9_SendEvent ==
    [][(pc = "kernel" /\ ident = "send_event") =>
        LET event == mem[sharedSP].args[1]
            tcb   == GetRegisteredEvent(event)
        IN  /\ klog' = <<Entry("getarg", event, 1), Entry("created", next, tcb)>>
            /\ \E w \in BOOLEAN :
                  <<next', queue'>> = OnTaskCreated(queue, next, tcb, w)
            /\ next' \in {next, tcb}
            /\ sharedSP' = sharedSP
            /\ mem' = [mem EXCEPT ![sharedSP].cur = 1]]_vars

\* A send_event was served and the scheduler let the handler preempt.
C9_Witness ==
    /\ pc = "top"
    /\ ident = "send_event"
    /\ klog[2] = Entry("created", prev, next)
    /\ next \in Handlers
    /\ prev \in Handlers
    /\ mem[sharedSP].cur = 1

\* C10: a send_event whose event number lies outside 0..NumTasks-1 ends in
\* a panic: the kernel halts, and the scheduler is handed nothing.
C10_OutOfRangePanics ==
    (/\ pc \notin {"user", "kernel"}
     /\ ident = "send_event"
     /\ klog # <<>>
     /\ klog[1].op = "getarg"
     /\ klog[1].a \notin 0..(NumTasks - 1))
    => (pc = "halt" /\ ~HasOp(klog, "created"))

\* ------------------------------------------------- create-thread claims

InitializerNames ==
    {"AllocateDedicatedStack", "AllocateDedicatedRecyclableStack",
     "AssignDedicatedRecyclableStackWithSize",
     "SetupExecutionContext", "AssignUniqueIdentifier", "AssignPriority"}

\* The initializer calls of a log, in the order they were made.
IsInitializerCall(e) == e.op \in InitializerNames

InitializerCalls(log) == SelectSeq(log, IsInitializerCall)

\* controller.allocate() was called and returned nullptr.
AllocateReturnedNull(log) ==
    \E i \in 1..Len(log) : log[i] = Entry("allocate", NullTask, 0)

\* controller.allocate() returned the task control block t.
Allocated(log, t) ==
    \E i \in 1..Len(log) : log[i] = Entry("allocate", t, 0)

\* C11: when the task controller has no task control block left, the
\* in-kernel create-thread routine sets the caller's return value to -1,
\* returns the caller, applies no initializer, does not notify the
\* scheduler, and leaves the pool (and all other kernel state) as it was.
C11_TcbOutOfMemory ==
    [][(form' = "kernel" /\ AllocateReturnedNull(tlog'))
       => /\ frame'.ret = 0 - 1
          /\ thread' = thread
          /\ tpc' = "run"
          /\ InitializerCalls(tlog') = <<>>
          /\ ~HasOp(tlog', "created")
          /\ ~HasOp(tlog', "release")
          /\ pool' = pool
          /\ ready' = ready
          /\ tcbs' = tcbs
          /\ heap' = heap]_vars

\* An in-kernel call with a non-empty pack has just met an empty pool.
C11_Witness ==
    /\ form = "kernel"
    /\ initializers # <<>>
    /\ AllocateReturnedNull(tlog)
    /\ pool = {}
    /\ frame.ret = 0 - 1

\* The position in the log of the (first) initializer that returned false.
FalseAt(log) == CHOOSE i \in 1..Len(log) : log[i].op = "false"

\* The names of the initializer calls of a log, in order.
CalledNames(log) ==
    [i \in 1..Len(InitializerCalls(log)) |-> InitializerCalls(log)[i].op]

\* C12: when an initializer of the pack returns false, the initializers
\* before it and itself are the only ones applied, in declaration order,
\* the new task control block is released so that the pool is as before the
\* call, the caller's return value is -1, the scheduler is not notified,
\* the caller is returned and the kernel keeps running.
C12_InitializerFailure ==
    [][(form' = "kernel" /\ HasOp(tlog', "false"))
       => /\ \A i \in (FalseAt(tlog') + 1)..Len(tlog') :
                 ~IsInitializerCall(tlog'[i])
          /\ Len(CalledNames(tlog')) <= Len(initializers)
          /\ CalledNames(tlog') = SubSeq(initializers, 1, Len(CalledNames(tlog')))
          /\ \E t \in Threads :
                 /\ Allocated(tlog', t)
                 /\ tlog'[Len(tlog')] = Entry("release", t, 0)
                 /\ CountOp(tlog', "release") = 1
          /\ pool' = pool
          /\ frame'.ret = 0 - 1
          /\ ~HasOp(tlog', "created")
          /\ ready' = ready
          /\ thread' = thread
          /\ tpc' = "run"]_vars

\* The second of three initializers has just returned false under an
\* in-kernel call.
C12_Witness ==
    /\ form = "kernel"
    /\ Len(initializers) = 3
    /\ HasOp(tlog, "false")
    /\ Len(InitializerCalls(tlog)) = 2
    /\ frame.ret = 0 - 1
    /\ tpc = "run"

\* The last of three initializers has just returned false.
C12_WitnessLast ==
    /\ form = "kernel"
    /\ Len(initializers) = 3
    /\ HasOp(tlog, "false")
    /\ Len(InitializerCalls(tlog)) = 3

\* C13: a create-thread call that fails in an initializer releases the
\* stack memory allocated during the call along with the task control block:
\* the allocated memory after the call is the allocated memory before it.
C13_AllocationsUndone ==
    [][(form' = "kernel" /\ HasOp(tlog', "false")) => heap' = heap]_vars

\* C14: when allocate() returns a task control block and every initializer
\* returns true, the k-th initializer of the pack has been applied exactly
\* once, to the new task control block and with the k-th argument, in
\* declaration order and before the scheduler is notified; the routine
\* returns what the scheduler's on_task_created(caller, new task) returns.
C14_Success ==
    [][(form' = "kernel" /\ HasOp(tlog', "created"))
       => \E t \in Threads :
              LET calls == InitializerCalls(tlog')
                  sched == ThreadOnTaskCreated([tcb |-> tcbs', queue |-> ready],
                                               thread, t)
              IN  /\ Allocated(tlog', t)
                  /\ t \in pool /\ pool' = pool \ {t}
                  /\ Len(calls) = Len(initializers)
                  /\ \A i \in 1..Len(calls) :
                         calls[i] = Entry(initializers[i], t, given'[i])
                  /\ CountOp(tlog', "created") = 1
                  /\ tlog'[Len(tlog')] = Entry("created", thread, t)
                  /\ thread' = sched[1]
                  /\ ready' = sched[2]
                  /\ tpc' = "run"]_vars

\* A thread created by three initializers has preempted its creator.
C14_Witness ==
    /\ form = "kernel"
    /\ HasOp(tlog, "created")
    /\ Len(initializers) = 3
    /\ Len(InitializerCalls(tlog)) = 3
    /\ thread # Boot
    /\ given[1] # given[3]

\* The reads of the argument cursor in a log, in the order they were made.
IsCursorRead(e) == e.op = "getarg"

CursorReads(log) == SelectSeq(log, IsCursorRead)

\* C15: the syscall form reads one value per initializer from the caller's
\* argument cursor, first initializer first, and the k-th initializer is
\* passed the k-th value: when a task control block is there for the new
\* thread, the initializers applied are an initial part of the pack (the
\* first one at least), each with the value of its own position.
C15_ArgumentOrder ==
    [][(form' = "syscall" /\ initializers # <<>>)
       => /\ CursorReads(tlog') =
                 [i \in 1..Len(initializers) |-> Entry("getarg", given'[i], i)]
          /\ pool # {}
             => \E t \in pool :
                    LET calls == InitializerCalls(tlog')
                    IN  /\ Len(calls) \in 1..Len(initializers)
                        /\ \A i \in 1..Len(calls) :
                               calls[i] = Entry(initializers[i], t, given'[i])]_vars

C17_SyscallFormIsInKernelForm ==
    [][form' = "syscall"
       => \E ret \in 0..1 :
              LET saved == [args |-> given', cur |-> 0, ret |-> ret]
                  read  == Collector(initializers, ThreadKernel(saved), thread)
                  ref   == ServiceRoutineBuilder("TaskController", initializers,
                                                 read[2], thread, read[1])
              IN  /\ tpc' = (IF ref.halt THEN "panic" ELSE "run")
                  /\ thread' = (IF ref.halt THEN thread ELSE ref.next)
                  /\ tcbs' = ref.k.tcb
                  /\ pool' = ref.k.pool
                  /\ heap' = ref.k.heap
                  /\ ready' = ref.k.queue
                  /\ frame' = ref.k.mem[ref.k.sp]
                  /\ InitializerCalls(tlog') = InitializerCalls(ref.k.log)]_vars

\* ------------------------------------------------------ fatal error claims

\* C18: when the context switcher returns an identifier the routine table
\* does not hold, the routine that runs is unknown_identifier: it reports a
\* fatal error and returns no task (next and the kernel's state stay as they
\* were), the dispatcher is halted, and nothing happens after it: no
\* injector call, no context switch.
C18_UnknownIdentifierHalts ==
    [][/\ (pc = "kernel" /\ ident \notin RoutineTable)
          => /\ pc' = "halt"
             /\ klog' = <<Entry("pfatal", next, 0)>>
             /\ next' = next
             /\ sharedSP' = sharedSP
             /\ mem' = mem
             /\ queue' = queue
             /\ running' = {}
       /\ pc = "halt" => UNCHANGED vars]_vars

\* A handler has trapped with an identifier without routine and the kernel
\* is halted.
C18_Witness ==
    /\ pc = "halt"
    /\ ident \in UnknownIdentifiers
    /\ prev \in Handlers
    /\ HasOp(klog, "pfatal")
    /\ ~HasOp(klog, "switch")

\* The number an identifier stands for.
IdentifierValue(identifier) ==
    CASE identifier = "0xFFFF" -> 65535
      [] identifier = "0x0003" -> 3
      [] OTHER -> 0

\* C19: the panic raised for an identifier without routine carries that
\* identifier in its diagnostic.
C19_PanicCarriesIdentifier ==
    (pc = "halt" /\ ident \in UnknownIdentifiers)
    => \E i \in 1..Len(klog) :
           klog[i].op = "pfatal" /\ klog[i].b = IdentifierValue(ident)

\* C20: a task handle that is no task control block, returned by a service
\* routine or by a scheduler hook, makes the kernel emit a diagnostic and
\* halt: next is never such a handle unless the kernel has halted on it.
C20_InvalidTaskHalts ==
    next \notin Tasks => (pc = "halt" /\ HasOp(klog, "pfatal"))

\* --------------------------------------------------- stack pointer claims

\* C21: the task the dispatcher hands to the context switcher as next has a
\* stack pointer that is not null, whatever the pack of initializers that
\* created it: the thread the kernel goes on with has a stack.
C21_NextHasStack ==
    tpc = "run" => GetDedicatedStackPointer([tcb |-> tcbs], thread) # Null

\* ------------------------------------------- event delivery claims

\* C22: with the preemptive injector, the frame on top of the shared stack
\* at every switch belongs to next: a handler that begins an activation,
\* also one that was queued and is selected when another handler returns,
\* had its context built in the same iteration.
C22_TopFrameBelongsToNext ==
    (UsesPreemptive /\ pc = "switch") => mem[sharedSP].code = next

\* The kernel was entered with send_event for the event of handler h.
SentTo(h) ==
    /\ pc = "kernel"
    /\ ident = "send_event"
    /\ GetRegisteredEvent(mem[sharedSP].args[1]) = h

\* The body of handler h has run to its end: its trampoline has issued
\* event_handler_return.
BodyDone(h) ==
    /\ pc = "kernel"
    /\ ident = "event_handler_return"
    /\ mem[sharedSP].code = h

\* The kernel has stopped, or the shared stack has no room for a trap.
Stopped == pc \in {"halt", "ub"} \/ (pc = "user" /\ cpu.usp < 2)

\* C23: with the preemptive injector every event sent to a registered
\* handler is followed by the completion of that handler's body, as long as
\* the kernel does not stop.
C23_EventDelivered ==
    \A h \in Handlers :
        (UsesPreemptive /\ SentTo(h)) ~> (BodyDone(h) \/ Stopped)

\* Task t has a saved context it has not finished: a frame it was
\* interrupted in lies on the shared stack above the stack pointer.
HasSavedContext(t) ==
    \E a \in DOMAIN mem : a > sharedSP /\ mem[a].code = t /\ mem[a].started

\* C24: with the cooperative injector the context builder is not invoked for
\* a task that has a saved, unfinished context: a task that was interrupted
\* earlier is resumed from that context, not restarted in the trampoline.
C24_NoRebuildOfInterrupted ==
    (UsesCooperative /\ pc = "switch" /\ HasOp(klog, "build")) =>
        ~HasSavedContext(next)

\* How many times the scheduler holds the TCB t: its places in the ready
\* queue (pending or preempted), and one more when it is the current task.
TimesHeld(t) ==
    Cardinality({i \in 1..Len(queue) : queue[i] = t})
        + (IF next = t THEN 1 ELSE 0)

\* C25: each event TCB is pending or active at most once: no TCB is handed
\* to on_task_created while it is queued, running or preempted.
C25_HeldAtMostOnce ==
    \A h \in Handlers : TimesHeld(h) <= 1

\* The cells of the shared stack that hold a context still to be resumed:
\* those at or above the stack pointer the kernel works on, or above the
\* stack of the code that runs.
Live(a) ==
    /\ mem[a] # EmptyFrame
    /\ a >= (IF pc = "user" THEN cpu.usp ELSE sharedSP)

LiveFrames == {a \in DOMAIN mem : Live(a)}

\* C26: with the preemptive injector the live frames of the shared stack are
\* in strictly increasing priority from the oldest to the newest, the code
\* that runs being the newest; and event_handler_return comes from the
\* newest frame that has not returned: every other live frame is older, at
\* or above the stack pointer the issuer started over.
C26_StackDiscipline ==
    (UsesPreemptive /\ pc \in {"user", "kernel", "top", "switch"}) =>
        /\ \A a, b \in LiveFrames :
              a < b => Priority(mem[a].code) > Priority(mem[b].code)
        /\ pc = "user" =>
              \A a \in LiveFrames : Priority(cpu.code) > Priority(mem[a].code)
        /\ (pc = "kernel" /\ ident = "event_handler_return") =>
              /\ mem[sharedSP].code \in Handlers
              /\ mem[sharedSP].oldsp > sharedSP
              /\ \A a \in LiveFrames \ {sharedSP} : a >= mem[sharedSP].oldsp

\* The innermost of three contexts returns: a handler of priority 2 over
\* the handler of priority 1 over idle.
C26_Witness ==
    /\ UsesPreemptive
    /\ pc = "kernel"
    /\ ident = "event_handler_return"
    /\ Cardinality(LiveFrames) = 3
    /\ Priority(mem[sharedSP].code) = 2
    /\ \E a \in LiveFrames : mem[a].code = 1
    /\ \E a \in LiveFrames : mem[a].code = Idle

\* ------------------------------------------------- stack initializers

StackInitializers ==
    {"AllocateDedicatedStack", "AllocateDedicatedRecyclableStack",
     "AssignDedicatedRecyclableStackWithSize"}

RecyclableStackInitializers ==
    {"AllocateDedicatedRecyclableStack", "AssignDedicatedRecyclableStackWithSize"}

\* The call at place i of the log did not return false.
Succeeded(log, i) == ~(i < Len(log) /\ log[i + 1].op = "false")

SetMax(S) == CHOOSE x \in S : \A y \in S : y <= x

\* The cells of a stack of `size` bytes that starts at `base`.
Block(base, size) == base..(base + size - 1)

\* What one create-thread call leaves in the task control block t, read off
\* the initializer calls it made on t: the last stack initializer that
\* succeeded decides the stack pointer, start plus size, and a recyclable
\* one the start of the stack as well; a call that returned false found no
\* room and changed neither.
StackFieldsAfter(t) ==
    LET calls == {i \in 1..Len(tlog') :
                     tlog'[i].op \in StackInitializers /\ tlog'[i].a = t}
        ok    == {i \in calls : Succeeded(tlog', i)}
        okR   == {i \in ok : tlog'[i].op \in RecyclableStackInitializers}
    IN  /\ ok = {} => tcbs'[t].sp = tcbs[t].sp
        /\ okR = {} => tcbs'[t].stack = tcbs[t].stack
        /\ \A i \in calls \ ok :
              /\ tlog'[i].op # "AssignDedicatedRecyclableStackWithSize"
              /\ ~\E b \in 1..HeapSize : Fits(heap', b, tlog'[i].b)
        /\ ok # {} =>
              LET e == tlog'[SetMax(ok)]
              IN  CASE e.op = "AssignDedicatedRecyclableStackWithSize" ->
                         /\ tcbs'[t].stack = First(e.b)
                         /\ tcbs'[t].sp = First(e.b) + Second(e.b)
                    [] e.op = "AllocateDedicatedRecyclableStack" ->
                         /\ tcbs'[t].stack # Null
                         /\ tcbs'[t].sp = tcbs'[t].stack + e.b
                         /\ Block(tcbs'[t].stack, e.b) \subseteq heap' \ heap
                    [] e.op = "AllocateDedicatedStack" ->
                         /\ tcbs'[t].sp - e.b # Null
                         /\ Block(tcbs'[t].sp - e.b, e.b) \subseteq heap' \ heap

\* A private stack, once set, holds the stack pointer: the pointer is at or
\* above the start and within the largest size, over cells the kernel took
\* from its heap or over the stack of the kernel image.
StackPointerWithinStack(t) ==
    tcbs[t].stack # Null =>
        /\ tcbs[t].sp >= tcbs[t].stack
        /\ tcbs[t].sp - tcbs[t].stack <= MaxArg
        /\ tcbs[t].stack # StaticStack =>
              Block(tcbs[t].stack, tcbs[t].sp - tcbs[t].stack) \subseteq heap

C27_WitnessAssigned ==
    /\ tpc = "run"
    /\ \E t \in Threads :
          /\ \E i \in 1..Len(tlog) :
                tlog[i] = Entry("AssignDedicatedRecyclableStackWithSize", t,
                                Pair(StaticStack, MaxArg))
          /\ tcbs[t].stack = StaticStack
          /\ tcbs[t].sp = StaticStack + MaxArg

\* An allocation found no room: the initializer returned false and the task
\* control block has no stack.
C27_WitnessNoRoom ==
    \E t \in Threads :
        /\ \E i \in 1..Len(tlog) :
              /\ tlog[i].op = "AllocateDedicatedRecyclableStack"
              /\ tlog[i].a = t
              /\ ~Succeeded(tlog, i)
        /\ tcbs[t].stack = Null
        /\ tcbs[t].sp = Null

\* ---------------------------------------------------- execution context

\* C28: SetupExecutionContext on a task whose stack pointer is null ends in
\* a panic, with no call of the context builder and nothing reported to the
\* caller: no return value of -1, no release of the task control block.  On
\* a task whose stack pointer is set it calls the context builder once, on
\* the task and the entry point, and returns true.
C28_SetupExecutionContext ==
    [][\A i \in 1..Len(tlog') :
          tlog'[i].op = "SetupExecutionContext" =>
              LET t == tlog'[i].a
                  hasStack ==
                      \/ tcbs[t].sp # Null
                      \/ \E j \in 1..(i - 1) :
                            /\ tlog'[j].op \in StackInitializers
                            /\ tlog'[j].a = t
                            /\ Succeeded(tlog', j)
              IN  IF hasStack
                  THEN /\ i < Len(tlog')
                       /\ tlog'[i + 1] = Entry("context", t, tlog'[i].b)
                       /\ CountOp(tlog', "context") = 1
                       /\ Succeeded(tlog', i + 1)
                       /\ tcbs'[t].ctx = tlog'[i].b
                       /\ tpc' = "run"
                  ELSE /\ i + 1 = Len(tlog')
                       /\ tlog'[i + 1] = Entry("precondition", t, 0)
                       /\ ~HasOp(tlog', "context")
                       /\ ~HasOp(tlog', "release")
                       /\ tpc' = "panic"
                       /\ frame'.ret # 0 - 1
                       /\ thread' = thread
                       /\ t \notin pool']_vars

\* The pack that sets up the context before it allocates the stack: the
\* kernel has panicked in SetupExecutionContext.
C28_Witness ==
    /\ tpc = "panic"
    /\ initializers[1] = "SetupExecutionContext"
    /\ Len(tlog) = 3
    /\ tlog[2].op = "SetupExecutionContext"
    /\ tlog[3].op = "precondition"
    /\ ~HasOp(tlog, "context")

\* The context of a task with a stack was built on its entry point.
C28_WitnessBuilt ==
    /\ tpc = "run"
    /\ \E i \in 1..(Len(tlog) - 1) :
          /\ tlog[i].op = "SetupExecutionContext"
          /\ tlog[i + 1] = Entry("context", tlog[i].a, tlog[i].b)
          /\ tcbs[tlog[i].a].sp # Null

\* ------------------------------------------------------------ trampoline

\* C29: the trampoline calls the handler once, issues
\* event_handler_return only after the handler has returned, and passes the
\* old stack pointer it was entered with: no return is issued before the
\* handler was called or without calling it.
C29_Trampoline ==
    /\ [](/\ Len(tramp.calls) <= 1
          /\ tramp.issued # NoCall =>
                /\ tramp.at = "kernel"
                /\ tramp.calls = <<tramp.handler>>
                /\ tramp.issued = [sys |-> "event_handler_return",
                                   args |-> <<tramp.oldStack>>])
    /\ [][tramp'.issued # tramp.issued =>
             /\ tramp.at = "after"
             /\ tramp.calls = <<tramp.handler>>]_vars

\* The trampoline has issued the return after a handler whose body took
\* its steps.
C29_Witness ==
    /\ tramp.at = "kernel"
    /\ tramp.body = MaxBody
    /\ tramp.calls = <<tramp.handler>>
    /\ tramp.issued.args = <<tramp.oldStack>>

\* ------------------------------------------------------ system call support

\* C30: within one kernel entry the k-th getSyscallArgument returns the k-th
\* argument of the saved context and moves the cursor by one, so that the
\* reads made so far are the first arguments in order, none twice and none
\* skipped; setSyscallKernelReturnValue writes the return value slot of that
\* context and leaves the cursor and the arguments alone.
C30_SequentialArguments ==
    /\ [](tpc = "kernel" =>
             /\ frame.cur = Len(CursorReads(tlog))
             /\ frame.cur <= Len(frame.args)
             /\ CursorReads(tlog) =
                   [i \in 1..frame.cur |-> Entry("getarg", frame.args[i], i)]
             /\ \A i \in 1..Len(tlog) :
                   tlog[i].op = "setret" => frame.ret = tlog[i].a)
    /\ [][(tpc = "kernel" /\ tpc' = "kernel") =>
             /\ frame'.args = frame.args
             /\ Len(CursorReads(tlog')) > Len(CursorReads(tlog)) =>
                   /\ frame'.cur = frame.cur + 1
                   /\ frame'.ret = frame.ret
             /\ Len(CursorReads(tlog')) = Len(CursorReads(tlog)) =>
                   frame'.cur = frame.cur]_vars

\* All three arguments of a call were read, and a return value was written
\* between two of the reads.
C30_Witness ==
    /\ tpc = "kernel"
    /\ Len(frame.args) = MaxSyscallArgs
    /\ frame.cur = MaxSyscallArgs
    /\ frame.args[1] # frame.args[2]
    /\ \E i \in 2..(Len(tlog) - 1) : tlog[i].op = "setret" /\ tlog[i].a = 0 - 1
    /\ frame.ret = 0 - 1

\* ------------------------------------------------- stack pointer storage

\* C31: with shared stack support a setStackPointer through any task control
\* block is what getStackPointer returns on every task control block; with
\* dedicated stack support a setStackPointer on one task control block is
\* what getStackPointer returns on it and leaves what getStackPointer
\* returns on every other one unchanged; so that in both variants
\* getStackPointer returns the last value set.
C31_StackPointerStorage ==
    [][/\ <<sharedSP, klog>>' # <<sharedSP, klog>> =>
             /\ Len(klog') = 1
             /\ klog'[1].op = "setsp"
             /\ \A u \in Tasks : GetStackPointer(Kernel', u) = klog'[1].a
       /\ <<tcbs, tlog>>' # <<tcbs, tlog>> =>
             /\ Len(tlog') = 1
             /\ tlog'[1].op = "setsp"
             /\ \A u \in {Boot} \cup Threads :
                   GetDedicatedStackPointer(ThreadKernel(frame)', u) =
                       IF u = tlog'[1].b THEN tlog'[1].a
                       ELSE GetDedicatedStackPointer(ThreadKernel(frame), u)
       /\ klog' = klog =>
             \A u \in Tasks :
                 GetStackPointer(Kernel', u) = GetStackPointer(Kernel, u)
       /\ tlog' = tlog =>
             \A u \in {Boot} \cup Threads :
                 GetDedicatedStackPointer(ThreadKernel(frame)', u) =
                     GetDedicatedStackPointer(ThreadKernel(frame), u)]_vars

\* The shared stack pointer was set through the task control block of a
\* handler and is read through that of the idle task; the stack pointer of a
\* pooled task control block was set and that of the first thread is the one
\* it was constructed with.
C31_Witness ==
    /\ klog = <<Entry("setsp", 1, 2)>>
    /\ GetStackPointer(Kernel, Idle) = 1
    /\ tlog = <<Entry("setsp", 2, 1)>>
    /\ GetDedicatedStackPointer(ThreadKernel(frame), 1) = 2
    /\ GetDedicatedStackPointer(ThreadKernel(frame), Boot) = BootSp

\* ------------------------------------------------------------ task table

\* The step is a call registerEvent(event, handler).
IsRegistration(event, handler) ==
    /\ klog' = <<Entry("registerEvent", event, handler)>>
    /\ <<tasks, registered, klog>>' # <<tasks, registered, klog>>

\* The step is a lookup of `event` that found `block` and read `handler`.
IsLookup(event, block, handler) ==
    /\ klog' = <<Entry("getRegisteredEvent", event, block),
                 Entry("getHandler", block, handler)>>
    /\ registered' = registered

\* C32: for every event of the table registerEvent(e, h) makes h the
\* handler stored in the TCB of e, whatever was stored before, and leaves the
\* TCB of every other event as it was; getRegisteredEvent(e) is the TCB at
\* index e of the table before and after every registration, a different one
\* for each event; and the handler read from it is the one last registered
\* for e.
C32_TaskTable ==
    [][/\ \A event \in Events, handler \in 1..MaxHandler :
             IsRegistration(event, handler) =>
                 /\ GetHandler(tasks'[event]) = handler
                 /\ \A other \in Events \ {event} : tasks'[other] = tasks[other]
       /\ \A event \in Events, block \in Tasks \cup {Wild},
              handler \in 0..MaxHandler :
             IsLookup(event, block, handler) =>
                 /\ block = event + 1
                 /\ handler = registered[event]
                 /\ tasks' = tasks
       /\ \A event \in Events :
             GetHandler(tasks'[event]) = registered'[event]]_vars

\* Handler 2 is the one last registered for event 1 and handler 1 the one
\* for event 0; the lookup of event 1 has found the TCB at index 1 and read
\* handler 2 in it.
C32_Witness ==
    /\ klog = <<Entry("getRegisteredEvent", 1, 2), Entry("getHandler", 2, 2)>>
    /\ registered = [e \in Events |->
                        IF e = 0 THEN 1 ELSE IF e = 1 THEN 2 ELSE NoHandler]
    /\ GetHandler(tasks[1]) = 2
    /\ GetHandler(tasks[0]) = 1

\* ------------------------------------------------------ dispatcher loop

\* The dispatcher stands in its loop: before the injectors, before
\* switchTask, in switchTask while a task runs, or before the routine.
InLoop == pc \in {"top", "switch", "user", "kernel"}

\* pfatal has stopped the kernel.
FatalHalt == pc = "halt"

\* The kernel goes on with a handle that is no task: nothing about it is
\* defined from here on.
Undefined == pc = "ub"

\* The running task cannot enter the kernel: the shared stack has no room
\* for its context.
CannotTrap == pc = "user" /\ cpu.usp < 2

\* C33: the loop of the dispatcher is never left other than by a fatal
\* halt: every iteration makes exactly one switchTask, between the
\* injectors and the routine; as long as every running task enters the
\* kernel again a step of the loop is possible in every state but the halt;
\* and switchTask is made again and again unless the kernel halts.
C33_LoopNeverExits ==
    /\ [](/\ InLoop \/ FatalHalt \/ Undefined
          /\ pc \in {"user", "kernel"} => CountOp(klog, "switch") = 1
          /\ pc \in {"top", "switch", "halt"} => CountOp(klog, "switch") = 0
          /\ (InLoop /\ ~CannotTrap) => ENABLED NextLoop
          /\ FatalHalt => ~ENABLED NextLoop)
    /\ [][/\ pc \in {"top", "kernel"} => ~HasOp(klog', "switch")
          /\ pc = "switch" => CountOp(klog', "switch") = CountOp(klog, "switch") + 1
          /\ pc = "user" => klog' = klog]_vars
    /\ ([]<><<SwitchTask>>_vars) \/ (<>[](FatalHalt \/ Undefined \/ CannotTrap))

\* The dispatcher is in its loop after more kernel entries than the model
\* has tasks: a handler that preempted has returned and the task it
\* interrupted is running again.
C33_Witness ==
    /\ pc = "user"
    /\ cpu.code = Idle
    /\ cpu.started
    /\ HasOp(klog, "switch")
    /\ \E i \in 1..Len(klog) : klog[i].op = "setsp"

\* ------------------------------------------- return value of create_thread

\* The return value slot of the caller's saved context after a call of the
\* in-kernel form that found the slot holding `ret`.
SlotAfter(args, ret) ==
    LET out == ServiceRoutineBuilder(
                   "TaskController", initializers,
                   ThreadKernel([args |-> <<>>, cur |-> 0, ret |-> ret]),
                   thread, args)
    IN  [created |-> HasOp(out.k.log, "created"),
         stopped |-> out.halt \/ out.illformed,
         ret |-> out.k.mem[out.k.sp].ret]

\* C34: a create_thread call that succeeds leaves the return value slot of
\* the caller's saved context holding the value it held when the caller
\* entered the kernel; the slot is written, with -1, exactly on the two paths
\* that fail: no task control block, or an initializer that returned false.
C34_SuccessKeepsReturnValue ==
    /\ tpc = "run" =>
          \A args \in ArgSeqs(initializers), ret \in 0..1 :
              LET after == SlotAfter(args, ret)
              IN  ~after.stopped =>
                      after.ret = IF after.created THEN ret ELSE 0 - 1
    /\ (form = "kernel" /\ tpc = "run") =>
          /\ HasOp(tlog, "created") => frame.ret \in 0..1
          /\ ~HasOp(tlog, "created") =>
                /\ frame.ret = 0 - 1
                /\ AllocateReturnedNull(tlog) \/ HasOp(tlog, "false")

\* A thread was created by a caller whose return value slot held 1, and the
\* slot holds 1.
C34_Witness ==
    /\ form = "kernel"
    /\ tpc = "run"
    /\ HasOp(tlog, "created")
    /\ Len(InitializerCalls(tlog)) > 0
    /\ frame.ret = 1

====
